---- MODULE Spec2Model ----
(***************************************************************************)
(* Model of src/utils/form.ts (the useAppForm hook) and of the drawer      *)
(* state of src/layout/PublicLayout.tsx, under React's update model:       *)
(* state setters enqueue updates, a render applies the queued updates in   *)
(* order, and passive effects of a render run before the next render.      *)
(***************************************************************************)
EXTENDS Integers, Sequences, FiniteSets, TLC

VARIABLES
    hook,             \* "unmounted" | "mounted" | "threw"
    thrown,           \* message of the Error thrown by useAppForm, or NoError
    params,           \* the arguments useAppForm was called with
    formState,        \* the state the last render returned (what closures see)
    queue,            \* updates passed to setFormState and not yet rendered
    effectDue,        \* the revalidation effect of the last render has not run yet
    lastEvent,        \* the last ChangeEvent handed to onFieldChange
    calls,            \* number of calls made through the hook's returned interface
    sideBarVisible,   \* PublicLayout: state of the drawer at the last render
    sideBarPending,   \* PublicLayout: values passed to setSideBarVisible, not yet rendered
    drawerLog,        \* PublicLayout: drawer callbacks invoked so far
    drawerTransitions \* PublicLayout: number of renders that changed sideBarVisible

formVars   == <<hook, thrown, params, formState, queue, effectDue, lastEvent, calls>>
layoutVars == <<sideBarVisible, sideBarPending, drawerLog, drawerTransitions>>
vars       == <<hook, thrown, params, formState, queue, effectDue, lastEvent, calls,
                sideBarVisible, sideBarPending, drawerLog, drawerTransitions>>

----------------------------------------------------------------------------
(* Bounds *)

\* Calls made through the returned interface (onFieldChange, setFormState).
MaxCalls == 3

\* Drawer callbacks (onSideBarOpen, onSideBarClose) invoked.
MaxDrawerEvents == 4

----------------------------------------------------------------------------
(* JavaScript values *)

\* A JS object as a function from its own keys.
EmptyMap == <<>>

\* {...obj, [key]: value}
Merge(obj, key, value) ==
    [k \in (DOMAIN obj) \cup {key} |-> IF k = key THEN value ELSE obj[k]]

\* Strings are sequences of characters, so that their length is computed.
Str(chars) == [kind |-> "string", s |-> chars, b |-> FALSE]
Bool(flag) == [kind |-> "boolean", s |-> <<>>, b |-> flag]

Undefined == "<undefined>"
Null      == "<null>"
NoError   == "<none>"

\* A computed property key [name]: an undefined name becomes the key "undefined".
KeyOf(name) == IF name = Undefined THEN "undefined" ELSE name

\* typeof x, for an argument of kind x.kind
TypeOf(arg) ==
    CASE arg.kind = "undefined" -> "undefined"
      [] arg.kind = "null"      -> "object"
      [] arg.kind = "object"    -> "object"
      [] arg.kind = "string"    -> "string"

\* !x
Falsy(arg) ==
    \/ arg.kind \in {"undefined", "null"}
    \/ arg.kind = "string" /\ arg.s = <<>>

----------------------------------------------------------------------------
(* validate.js, as called at form.ts:98 *)

\* The schema of the modelled form: per field, the validators in order.
FORM_SCHEMA ==
    [ email     |-> << [rule |-> "presence",  minimum |-> 0, within |-> {},
                        message |-> "Email can't be blank"],
                       [rule |-> "length",    minimum |-> 2, within |-> {},
                        message |-> "Email is too short"] >>,
      subscribe |-> << [rule |-> "presence",  minimum |-> 0, within |-> {},
                        message |-> "Subscribe can't be blank"],
                       [rule |-> "inclusion", minimum |-> 0, within |-> {Bool(TRUE)},
                        message |-> "Subscribe must be accepted"] >> ]

\* presence {allowEmpty: false} rejects undefined and empty strings; length and
\* inclusion skip undefined values.
RuleFails(values, field, r) ==
    LET defined == field \in DOMAIN values
    IN  CASE r.rule = "presence"  ->
                \/ ~defined
                \/ values[field].kind = "string" /\ values[field].s = <<>>
          [] r.rule = "length"    ->
                /\ defined
                /\ values[field].kind = "string"
                /\ Len(values[field].s) < r.minimum
          [] r.rule = "inclusion" ->
                /\ defined
                /\ values[field] \notin r.within

\* The messages of the validators of `field` that fail, in schema order.
Violations(values, field, rules) ==
    LET Fails(r) == RuleFails(values, field, r)
        failed   == SelectSeq(rules, Fails)
    IN  [i \in 1..Len(failed) |-> failed[i].message]

\* validate(values, schema): undefined when nothing fails, else the mapping
\* from each failing field to its messages.
validate(values, schema) ==
    LET failing == {f \in DOMAIN schema : Violations(values, f, schema[f]) # <<>>}
    IN  IF failing = {}
        THEN [defined |-> FALSE, errors |-> EmptyMap]
        ELSE [defined |-> TRUE,
              errors  |-> [f \in failing |-> Violations(values, f, schema[f])]]

\* errors || {}
OrEmpty(result) == IF result.defined THEN result.errors ELSE EmptyMap

----------------------------------------------------------------------------
(* form.ts: state and accessors *)

DEFAULT_FORM_STATE == [values |-> EmptyMap, touched |-> EmptyMap, errors |-> EmptyMap]

\* Mutant of formHasError: the touched flag is not consulted.
formHasErrorIgnoringTouched(state, fieldName) ==
    fieldName \in DOMAIN state.errors

\* Boolean(touched[fieldName] && errors[fieldName]): a missing key is undefined
\* (falsy), an array is truthy whatever its length.
formHasError(state, fieldName) ==
    /\ fieldName \in DOMAIN state.touched
    /\ state.touched[fieldName]
    /\ fieldName \in DOMAIN state.errors

\* Mutant of formGetError: the last message instead of the first.
formGetErrorLast(state, fieldName) ==
    IF formHasError(state, fieldName)
    THEN IF Len(state.errors[fieldName]) > 0
         THEN state.errors[fieldName][Len(state.errors[fieldName])]
         ELSE Undefined
    ELSE Null

\* formHasError(...) ? errors[fieldName]?.[0] : null
formGetError(state, fieldName) ==
    IF formHasError(state, fieldName)
    THEN IF Len(state.errors[fieldName]) > 0
         THEN state.errors[fieldName][1]
         ELSE Undefined
    ELSE Null

fieldGetError(fieldName) == formGetError(formState, fieldName)

fieldHasError(fieldName) == formHasError(formState, fieldName)

\* Mutant of isFormValid: the comparison is off by one.
isFormValidOffByOne == Cardinality(DOMAIN formState.errors) <= 1

isFormValid == Cardinality(DOMAIN formState.errors) < 1

isFormTouched == Cardinality(DOMAIN formState.touched) > 0

----------------------------------------------------------------------------
(* form.ts: inputs *)

TextEmpty == <<>>
TextOk    == <<"x", "y">>
TextOn    == <<"o", "n">>

\* Arguments a caller may pass as validationSchema.
SchemaArgs ==
    { [kind |-> "undefined", s |-> <<>>, obj |-> EmptyMap],
      [kind |-> "null",      s |-> <<>>, obj |-> EmptyMap],
      [kind |-> "string",    s |-> TextEmpty, obj |-> EmptyMap],
      [kind |-> "string",    s |-> TextOk, obj |-> EmptyMap],
      [kind |-> "object",    s |-> <<>>, obj |-> FORM_SCHEMA] }

\* Arguments a caller may pass as initialValues.
InitialValuesArgs ==
    { [kind |-> "undefined", s |-> <<>>, obj |-> EmptyMap],
      [kind |-> "null",      s |-> <<>>, obj |-> EmptyMap],
      [kind |-> "string",    s |-> TextOk, obj |-> EmptyMap],
      [kind |-> "object",    s |-> <<>>, obj |-> EmptyMap],
      [kind |-> "object",    s |-> <<>>, obj |-> [email |-> Str(TextOk)]] }

NoParams == [validationSchema |-> [kind |-> "undefined", s |-> <<>>, obj |-> EmptyMap],
             initialValues    |-> [kind |-> "undefined", s |-> <<>>, obj |-> EmptyMap]]

\* event.target of the change events the form's controls emit.
ChangeEvents ==
    { [name |-> "email",     type |-> "text",     value |-> TextEmpty, checked |-> FALSE],
      [name |-> "email",     type |-> "text",     value |-> TextOk,    checked |-> FALSE],
      [name |-> "subscribe", type |-> "checkbox", value |-> TextOn,    checked |-> TRUE],
      [name |-> "subscribe", type |-> "checkbox", value |-> TextOn,    checked |-> FALSE],
      [name |-> Undefined,   type |-> "text",     value |-> TextOk,    checked |-> FALSE] }

NoEvent == [name |-> Undefined, type |-> "none", value |-> <<>>, checked |-> FALSE]

\* States a caller passes to the returned setFormState.
RawStates ==
    { DEFAULT_FORM_STATE,
      [values  |-> [email |-> Str(TextOk)],
       touched |-> [email |-> FALSE],
       errors  |-> [email |-> <<"Email is already taken">>]] }

----------------------------------------------------------------------------
(* form.ts: useAppForm *)

\* The default parameter value: initialValues = {} applies to undefined only.
InitialValuesOrDefault(arg) ==
    IF arg.kind = "undefined" THEN [kind |-> "object", s |-> <<>>, obj |-> EmptyMap] ELSE arg

\* The Error the parameter checks throw (its message abridged), or NoError.
ParamsError(validationSchema, initialValues) ==
    IF Falsy(validationSchema)
    THEN "useAppForm() - validationSchema is required"
    ELSE IF TypeOf(validationSchema) # "object"
    THEN "useAppForm() - validationSchema should be an object"
    ELSE IF TypeOf(initialValues) # "object"
    THEN "useAppForm() - initialValues should be an object"
    ELSE NoError

\* First render of a component calling useAppForm({validationSchema, initialValues}).
\* A null initialValues has no own keys: spreading it and validating it behave
\* as for the empty object, which is how its values are held here.
Mount(validationSchema, initialValuesArg) ==
    LET initialValues == InitialValuesOrDefault(initialValuesArg)
        error == ParamsError(validationSchema, initialValues)
    IN  /\ hook = "unmounted"
        /\ params' = [validationSchema |-> validationSchema, initialValues |-> initialValuesArg]
        /\ thrown' = error
        /\ IF error # NoError
           THEN /\ hook' = "threw"
                /\ UNCHANGED <<formState, effectDue>>
           ELSE /\ hook' = "mounted"
                /\ formState' = [DEFAULT_FORM_STATE EXCEPT !.values = initialValues.obj]
                /\ effectDue' = TRUE
        /\ UNCHANGED <<queue, lastEvent, calls>>
        /\ UNCHANGED layoutVars

\* Mutant of ChangeUpdater: touched is rebuilt instead of spread.
ChangeUpdaterResettingTouched(state, name, value) ==
    [values  |-> Merge(state.values, KeyOf(name), value),
     touched |-> Merge(EmptyMap, KeyOf(name), TRUE),
     errors  |-> state.errors]

\* The updater of form.ts:113-123.
ChangeUpdater(state, name, value) ==
    [values  |-> Merge(state.values, KeyOf(name), value),
     touched |-> Merge(state.touched, KeyOf(name), TRUE),
     errors  |-> state.errors]

\* Mutant of ErrorsUpdater: the new errors are merged into the old ones.
ErrorsUpdaterMerging(state, errors) ==
    [state EXCEPT !.errors =
        [k \in (DOMAIN state.errors) \cup (DOMAIN errors) |->
            IF k \in DOMAIN errors THEN errors[k] ELSE state.errors[k]]]

\* The updater of form.ts:99-102.
ErrorsUpdater(state, errors) ==
    [state EXCEPT !.errors = errors]

\* One queued update applied to the state the previous ones left.
ApplyUpdate(state, u) ==
    CASE u.kind = "change" -> ChangeUpdater(state, u.name, u.value)
      [] u.kind = "errors" -> ErrorsUpdater(state, u.errors)
      [] u.kind = "set"    -> u.state

\* Mutant of ApplyQueue: the revalidation update spreads the state its effect
\* closed over (the rendered one) instead of the state it is handed.
RECURSIVE StaleFold(_, _, _)
StaleFold(rendered, state, q) ==
    IF q = <<>> THEN state
    ELSE StaleFold(rendered,
                   IF Head(q).kind = "errors"
                   THEN ErrorsUpdater(rendered, Head(q).errors)
                   ELSE ApplyUpdate(state, Head(q)),
                   Tail(q))

ApplyQueueStale(state, q) == StaleFold(state, state, q)

\* The queue of updates applied in order, as a render does.
RECURSIVE ApplyQueue(_, _)
ApplyQueue(state, q) ==
    IF q = <<>> THEN state ELSE ApplyQueue(ApplyUpdate(state, Head(q)), Tail(q))

\* Whether the queued update leaves formState.values a different object.
NewValuesObject(u) ==
    \/ u.kind = "change"
    \/ u.kind = "set" /\ u.fresh

NoUpdateFields == [kind |-> "none", name |-> Undefined, value |-> Bool(FALSE), errors |-> EmptyMap,
                   state |-> DEFAULT_FORM_STATE, fresh |-> FALSE]

\* Mutant of EventValue: the control's type is not consulted.
EventValueIgnoringType(target) == Str(target.value)

\* value of form.ts:108-111
EventValue(target) ==
    IF target.type = "checkbox" THEN Bool(target.checked) ELSE Str(target.value)

onFieldChange(event) ==
    /\ hook = "mounted"
    /\ calls < MaxCalls
    /\ calls' = calls + 1
    /\ lastEvent' = event
    /\ queue' = Append(queue, [NoUpdateFields EXCEPT !.kind = "change",
                                                     !.name = event.name,
                                                     !.value = EventValue(event)])
    /\ UNCHANGED <<hook, thrown, params, formState, effectDue>>
    /\ UNCHANGED layoutVars

\* The returned setFormState called with a state object. `fresh` tells whether
\* its values is a new object or the very object of the rendered state.
setFormState(state, fresh) ==
    /\ hook = "mounted"
    /\ calls < MaxCalls
    /\ fresh \/ state.values = formState.values
    /\ calls' = calls + 1
    /\ queue' = Append(queue, [NoUpdateFields EXCEPT !.kind = "set",
                                                     !.state = state,
                                                     !.fresh = fresh])
    /\ UNCHANGED <<hook, thrown, params, formState, effectDue, lastEvent>>
    /\ UNCHANGED layoutVars

\* The effect of form.ts:97-103, run after the render that scheduled it.
RunEffect ==
    /\ hook = "mounted"
    /\ effectDue
    /\ LET errors == validate(formState.values, params.validationSchema.obj)
       IN  queue' = Append(queue, [NoUpdateFields EXCEPT !.kind = "errors",
                                                         !.errors = OrEmpty(errors)])
    /\ effectDue' = FALSE
    /\ UNCHANGED <<hook, thrown, params, formState, lastEvent, calls>>
    /\ UNCHANGED layoutVars

\* Mutant of Render: the effect does not depend on formState.values.
RenderWithoutRevalidation ==
    /\ hook = "mounted"
    /\ ~effectDue
    /\ queue # <<>>
    /\ formState' = ApplyQueue(formState, queue)
    /\ queue' = <<>>
    /\ effectDue' = FALSE
    /\ UNCHANGED <<hook, thrown, params, lastEvent, calls>>
    /\ UNCHANGED layoutVars

\* A re-render: the queued updates are applied in order; the effect is
\* scheduled again when formState.values is another object than before.
Render ==
    /\ hook = "mounted"
    /\ ~effectDue
    /\ queue # <<>>
    /\ formState' = ApplyQueue(formState, queue)
    /\ queue' = <<>>
    /\ effectDue' = (\E i \in 1..Len(queue) : NewValuesObject(queue[i]))
    /\ UNCHANGED <<hook, thrown, params, lastEvent, calls>>
    /\ UNCHANGED layoutVars

----------------------------------------------------------------------------
(* PublicLayout.tsx: the drawer *)

\* Mutant of onSideBarOpen: the setter is called whatever sideBarVisible is.
onSideBarOpenUnguarded ==
    /\ Len(drawerLog) < MaxDrawerEvents
    /\ drawerLog' = Append(drawerLog, [action |-> "open", visible |-> sideBarVisible])
    /\ sideBarPending' = Append(sideBarPending, TRUE)
    /\ UNCHANGED <<sideBarVisible, drawerTransitions>>
    /\ UNCHANGED formVars

\* onSideBarOpen, as memoised by the last render: it reads that render's
\* sideBarVisible.
onSideBarOpen ==
    /\ Len(drawerLog) < MaxDrawerEvents
    /\ drawerLog' = Append(drawerLog, [action |-> "open", visible |-> sideBarVisible])
    /\ IF ~sideBarVisible
       THEN sideBarPending' = Append(sideBarPending, TRUE)
       ELSE UNCHANGED sideBarPending
    /\ UNCHANGED <<sideBarVisible, drawerTransitions>>
    /\ UNCHANGED formVars

onSideBarClose ==
    /\ Len(drawerLog) < MaxDrawerEvents
    /\ drawerLog' = Append(drawerLog, [action |-> "close", visible |-> sideBarVisible])
    /\ IF sideBarVisible
       THEN sideBarPending' = Append(sideBarPending, FALSE)
       ELSE UNCHANGED sideBarPending
    /\ UNCHANGED <<sideBarVisible, drawerTransitions>>
    /\ UNCHANGED formVars

\* A re-render of PublicLayout: the last value passed to setSideBarVisible
\* becomes the state.
RenderLayout ==
    /\ sideBarPending # <<>>
    /\ sideBarVisible' = sideBarPending[Len(sideBarPending)]
    /\ sideBarPending' = <<>>
    /\ drawerTransitions' =
         IF sideBarVisible' # sideBarVisible THEN drawerTransitions + 1 ELSE drawerTransitions
    /\ UNCHANGED drawerLog
    /\ UNCHANGED formVars

----------------------------------------------------------------------------
(* Specifications *)

Init ==
    /\ hook = "unmounted"
    /\ thrown = NoError
    /\ params = NoParams
    /\ formState = DEFAULT_FORM_STATE
    /\ queue = <<>>
    /\ effectDue = FALSE
    /\ lastEvent = NoEvent
    /\ calls = 0
    /\ sideBarVisible = FALSE
    /\ sideBarPending = <<>>
    /\ drawerLog = <<>>
    /\ drawerTransitions = 0

\* The form driven by its controls only.
NextForm ==
    \/ \E schema \in SchemaArgs, initial \in InitialValuesArgs : Mount(schema, initial)
    \/ \E event \in ChangeEvents : onFieldChange(event)
    \/ RunEffect
    \/ Render

\* The form driven through the whole returned interface.
Next ==
    \/ NextForm
    \/ \E state \in RawStates, fresh \in BOOLEAN : setFormState(state, fresh)

NextLayout ==
    \/ onSideBarOpen
    \/ onSideBarClose
    \/ RenderLayout

Spec == Init /\ [][Next]_vars

SpecForm == Init /\ [][NextForm]_vars

\* React runs every scheduled effect and renders every queued update.
SpecFormLive == Init /\ [][NextForm]_vars /\ WF_vars(RunEffect) /\ WF_vars(Render)

SpecLayout == Init /\ [][NextLayout]_vars

----------------------------------------------------------------------------
(* Properties *)

Fields == {"email", "subscribe", "undefined"}

\* The errors the schema gives for the rendered values.
CurrentErrors == OrEmpty(validate(formState.values, params.validationSchema.obj))

\* Nothing of a revalidation is outstanding: the effect has run and its
\* update, like every other update, has been rendered.
Settled == hook = "mounted" /\ ~effectDue /\ queue = <<>>

\* A touched flag that is set.
Touched(state, f) == f \in DOMAIN state.touched /\ state.touched[f] = TRUE

\* C1 as stated: in every reachable state of a mounted form, errors is the
\* result of validating the current values against the schema.
C1_ErrorsAlwaysInStep ==
    hook = "mounted" => formState.errors = CurrentErrors

\* C1 as amended: in every reachable state in which no revalidation is
\* outstanding, errors is the result of validating the current values.
C1_ErrorsInStepWhenSettled ==
    Settled => formState.errors = CurrentErrors

C1_Witness ==
    /\ Settled
    /\ calls >= 2
    /\ DOMAIN formState.values = {"email", "subscribe"}
    /\ DOMAIN formState.errors = {"subscribe"}

IsChange(u) == u.kind = "change"

\* C2: a change of values (the mount included) schedules the revalidation
\* effect; a render of change updates alone leaves errors as it was; and a
\* scheduled revalidation leads to a state with nothing outstanding in which
\* errors is the whole result of validating the current values.
C2_RevalidationFollowsChange ==
    /\ [][ /\ (hook = "unmounted" /\ hook' = "mounted") => effectDue'
           /\ formState'.values # formState.values => effectDue'
           /\ (queue # <<>> /\ queue' = <<>> /\ \A i \in 1..Len(queue) : IsChange(queue[i]))
                 => (effectDue' /\ formState'.errors = formState.errors) ]_vars
    /\ (hook = "mounted" /\ effectDue) ~> (Settled /\ formState.errors = CurrentErrors)

C2_Witness ==
    /\ Settled
    /\ calls >= 1
    /\ lastEvent.name = "email"
    /\ "email" \in DOMAIN formState.values
    /\ formState.values["email"] = Str(TextEmpty)
    /\ "email" \in DOMAIN formState.errors
    /\ formState.errors["email"] = <<"Email can't be blank", "Email is too short">>

\* The updates of the queue that calls of the returned interface made.
CallsIn(q) == SelectSeq(q, LAMBDA u : u.kind # "errors")

SameEntry(before, after, k) ==
    /\ (k \in DOMAIN after) <=> (k \in DOMAIN before)
    /\ k \in DOMAIN before => after[k] = before[k]

\* C3: the render of a change event on a control named n leaves values[n]
\* the control's checked boolean when its type is checkbox and its string
\* value otherwise, touched[n] true, and the values and touched entries of
\* every other field as they were.
C3_ChangeBindsOneField ==
    [][ (hook = "mounted" /\ queue' = <<>> /\ Len(CallsIn(queue)) = 1 /\ IsChange(CallsIn(queue)[1]))
          => LET n == KeyOf(lastEvent.name)
             IN  /\ n \in DOMAIN formState'.values
                 /\ formState'.values[n] =
                       IF lastEvent.type = "checkbox"
                       THEN [kind |-> "boolean", s |-> <<>>, b |-> lastEvent.checked]
                       ELSE [kind |-> "string", s |-> lastEvent.value, b |-> FALSE]
                 /\ Touched(formState', n)
                 /\ \A k \in Fields \ {n} :
                       /\ SameEntry(formState.values, formState'.values, k)
                       /\ SameEntry(formState.touched, formState'.touched, k) ]_vars

C3_Witness ==
    /\ hook = "mounted"
    /\ queue = <<>>
    /\ lastEvent.type = "checkbox"
    /\ lastEvent.checked
    /\ DOMAIN formState.values = {"email", "subscribe"}
    /\ formState.values["subscribe"] = Bool(TRUE)
    /\ formState.values["email"] = Str(TextOk)
    /\ Touched(formState, "subscribe")

\* C4: fieldHasError(f) is true exactly when f is touched and has a
\* non-empty error entry; an untouched field with errors reports false.
C4_HasErrorIffTouchedAndError ==
    hook = "mounted" =>
        \A f \in Fields :
            fieldHasError(f) <=>
                /\ Touched(formState, f)
                /\ f \in DOMAIN formState.errors
                /\ formState.errors[f] # <<>>

C4_Witness ==
    /\ hook = "mounted"
    /\ fieldHasError("email")
    /\ ~Touched(formState, "subscribe")
    /\ "subscribe" \in DOMAIN formState.errors
    /\ ~fieldHasError("subscribe")

\* C5: fieldGetError(f) is the first message of f's error list when f is
\* touched and has errors, and null otherwise.
C5_GetErrorIsFirstOrNull ==
    hook = "mounted" =>
        \A f \in Fields :
            fieldGetError(f) =
                IF Touched(formState, f) /\ f \in DOMAIN formState.errors
                THEN Head(formState.errors[f])
                ELSE Null

C5_Witness ==
    /\ hook = "mounted"
    /\ Touched(formState, "email")
    /\ "email" \in DOMAIN formState.errors
    /\ Len(formState.errors["email"]) = 2
    /\ fieldGetError("email") = "Email can't be blank"
    /\ fieldGetError("subscribe") = Null
    /\ "subscribe" \in DOMAIN formState.errors

\* A structured object: neither a primitive nor null.
IsStructuredObject(arg) == arg.kind = "object"

\* C6: useAppForm throws, creating no state, exactly when validationSchema
\* is missing or not a structured object, or initialValues is given and is
\* not a structured object.
C6_ThrowsIffBadParams ==
    hook # "unmounted" =>
        (hook = "threw" <=>
            \/ ~IsStructuredObject(params.validationSchema)
            \/ /\ params.initialValues.kind # "undefined"
               /\ ~IsStructuredObject(params.initialValues))

\* C7 as stated: no step of the hook clears a touched flag that is set.
C7_TouchedOnlyGrows ==
    [][ \A f \in Fields : Touched(formState, f) => Touched(formState', f) ]_vars

\* C7 as amended: no step clears a touched flag that is set, unless the
\* render applies a state passed to the returned setFormState.
C7_TouchedGrowsUnlessSet ==
    [][ (\A i \in 1..Len(queue) : queue[i].kind # "set")
          => \A f \in Fields : Touched(formState, f) => Touched(formState', f) ]_vars

C7_Witness ==
    /\ hook = "mounted"
    /\ calls = 2
    /\ queue = <<>>
    /\ Touched(formState, "email")
    /\ Touched(formState, "subscribe")

\* C8: isFormValid() is true iff errors has no key, and isFormTouched() is
\* true iff touched has at least one key.
C8_ValidAndTouchedPredicates ==
    hook = "mounted" =>
        /\ isFormValid <=> (\A f \in Fields : f \notin DOMAIN formState.errors)
        /\ isFormTouched <=> (\E f \in Fields : f \in DOMAIN formState.touched)

C8_Witness ==
    /\ hook = "mounted"
    /\ isFormValid
    /\ isFormTouched
    /\ DOMAIN formState.touched = {"email", "subscribe"}

\* The number of maximal runs of equal callbacks in the log, a leading run
\* of closes (the drawer starts closed) not counted.
DrawerRuns ==
    Cardinality({i \in 1..Len(drawerLog) :
                    IF i = 1 THEN drawerLog[i].action = "open"
                    ELSE drawerLog[i].action # drawerLog[i - 1].action})

\* C9: opening a drawer that is open and closing a drawer that is closed
\* call no state setter, and successive equal callbacks make at most one
\* transition of sideBarVisible.
C9_DrawerToggleIdempotent ==
    /\ [][ (/\ Len(drawerLog') = Len(drawerLog) + 1
            /\ LET e == drawerLog'[Len(drawerLog')]
               IN  \/ e.action = "open" /\ sideBarVisible
                   \/ e.action = "close" /\ ~sideBarVisible)
           => (sideBarPending' = sideBarPending /\ sideBarVisible' = sideBarVisible) ]_vars
    /\ [](drawerTransitions <= DrawerRuns)

C9_Witness ==
    /\ sideBarVisible
    /\ sideBarPending = <<>>
    /\ drawerTransitions = 1
    /\ Len(drawerLog) >= 2
    /\ \A i \in 1..Len(drawerLog) : drawerLog[i].action = "open"
    /\ drawerLog[Len(drawerLog)].visible

\* The change updates of a queue applied in order, the others skipped.
RECURSIVE ChangesApplied(_, _)
ChangesApplied(state, q) ==
    IF q = <<>> THEN state
    ELSE ChangesApplied(
            IF IsChange(Head(q)) THEN ChangeUpdater(state, Head(q).name, Head(q).value) ELSE state,
            Tail(q))

\* C10: a render that commits revalidation results together with change
\* events, in any order, leaves values and touched exactly as the change
\* events alone leave them.
C10_RevalidationKeepsChanges ==
    [][ (hook = "mounted" /\ queue # <<>> /\ queue' = <<>>)
          => /\ formState'.values = ChangesApplied(formState, queue).values
             /\ formState'.touched = ChangesApplied(formState, queue).touched ]_vars

\* A change event queued before the revalidation update, about to be rendered.
C10_Witness ==
    /\ hook = "mounted"
    /\ ~effectDue
    /\ Len(queue) >= 2
    /\ \E i \in 1..Len(queue) : \E j \in 1..Len(queue) :
          i < j /\ IsChange(queue[i]) /\ queue[j].kind = "errors"

====
